---- MODULE Spec2Model ----
(***************************************************************************)
(* Model of renumber_seq.py: main() runs renumber_files(path, start,       *)
(* length) over every path of args; renumber_files stages every matching   *)
(* file of the directory under a temporary name (phase 1), gives every     *)
(* bucket its final numbers (phase 2) and, on any exception, calls         *)
(* restore_original_names(renaming_dict).                                  *)
(*                                                                         *)
(* A file name is a sequence of one-character strings, "." included, so    *)
(* that split('.'), isnumeric(), int(), str(), zfill() and the '%s.%s.%s'  *)
(* formatting are computed and not assumed.  The element "sup2" stands for *)
(* one character such as U+00B2, for which str.isnumeric() is True and     *)
(* int() raises ValueError.                                                *)
(*                                                                         *)
(* All paths handled by one call of renumber_files share the prefix        *)
(* '<path>/', so renaming_dict holds the file names and the prefix is the  *)
(* variable path of the call, args[argi].                                  *)
(***************************************************************************)
EXTENDS Integers, Sequences, FiniteSets, TLC

\* Bounds of the model.
MaxFiles == 3      \* entries of the directory d1
MaxStart == 2      \* options.start ranges over 0..MaxStart
MaxLength == 2     \* options.length ranges over 1..MaxLength
MaxFrame == 1000   \* options.start ranges over 0..MaxFrame in SpecPad
MaxPad == 3        \* options.length ranges over 1..MaxPad in SpecPad

VARIABLES
    fs,               \* directory path -> (entry name -> [kind, id])
    fs0,              \* fs when main() was called (never changes)
    fsAtCall,         \* fs when the current call of renumber_files listed its directory
    args,             \* the paths main() iterates over
    start, length,    \* options.start, options.length
    pc,               \* position of the program
    argi,             \* index in args of the path being processed
    files,            \* the entries of os.listdir(path) the phase 1 loop has yet to visit
    renaming_dict,    \* sequence of <<key, value>>, in insertion order
    seqs_data_dict,   \* sequence of <<<<name, ext>>, list of numbers>>, in insertion order
    bi,               \* index in seqs_data_dict of the phase 2 outer loop
    j,                \* index in img_list of the phase 2 inner loop, 0 before the sort
    frame_number,     \* the next frame number
    r,                \* index in renaming_dict of the loop of restore_original_names
    log,              \* records the logger received
    trace,            \* every os.rename call so far, with its outcome
    ended             \* how each call of renumber_files ended

vars == <<fs, fs0, fsAtCall, args, start, length, pc, argi, files,
          renaming_dict, seqs_data_dict, bi, j, frame_number, r, log, trace, ended>>

----------------------------------------------------------------------------
\* Characters and strings

DecimalDigits == <<"0", "1", "2", "3", "4", "5", "6", "7", "8", "9">>

Decimal == {DecimalDigits[k] : k \in 1..10}

\* str.isnumeric() accepts more than the characters int() accepts.
NumericChars == Decimal \cup {"sup2"}

DATE == <<"2", "2">>

TEMP_SUFIX == <<"_", "t", "m", "p", "_">> \o DATE

\* number.isnumeric(): non-empty and every character numeric.
IsNumeric(s) == Len(s) > 0 /\ \A k \in 1..Len(s) : s[k] \in NumericChars

\* int(number) raises ValueError unless this holds.
IntDefined(s) == Len(s) > 0 /\ \A k \in 1..Len(s) : s[k] \in Decimal

DigitValue(c) == CHOOSE v \in 0..9 : DecimalDigits[v + 1] = c

RECURSIVE IntOf(_)
IntOf(s) ==
    IF Len(s) = 0 THEN 0
    ELSE 10 * IntOf(SubSeq(s, 1, Len(s) - 1)) + DigitValue(s[Len(s)])

\* str(n) for n >= 0.
RECURSIVE StrOf(_)
StrOf(n) ==
    IF n < 10 THEN <<DecimalDigits[n + 1]>>
    ELSE StrOf(n \div 10) \o <<DecimalDigits[(n % 10) + 1]>>

\* A zfill that keeps the last width characters of a longer string.
RECURSIVE ZfillTruncated(_, _)
ZfillTruncated(s, width) ==
    IF Len(s) > width THEN SubSeq(s, Len(s) - width + 1, Len(s))
    ELSE IF Len(s) = width THEN s
    ELSE ZfillTruncated(<<"0">> \o s, width)

\* s.zfill(width) for a string without sign.
RECURSIVE Zfill(_, _)
Zfill(s, width) == IF Len(s) >= width THEN s ELSE Zfill(<<"0">> \o s, width)

\* file.split('.')
RECURSIVE Split(_)
Split(s) ==
    IF \A k \in 1..Len(s) : s[k] # "."
    THEN <<s>>
    ELSE LET p == CHOOSE k \in 1..Len(s) :
                      s[k] = "." /\ \A m \in 1..(k - 1) : s[m] # "."
         IN  <<SubSeq(s, 1, p - 1)>> \o Split(SubSeq(s, p + 1, Len(s)))

\* '%s.%s.%s' % (name, number, ext)
Format3(name, number, ext) == name \o <<".">> \o number \o <<".">> \o ext

\* The token without its leading zeros.
RECURSIVE StripZeros(_)
StripZeros(s) == IF Len(s) > 1 /\ s[1] = "0" THEN StripZeros(Tail(s)) ELSE s

\* A temporary name built from the value of the token, not from its text.
TmpNameByValue(name, number, ext) == Format3(name, StripZeros(number) \o TEMP_SUFIX, ext)

\* tmp_path, without the directory
TmpName(name, number, ext) == Format3(name, number \o TEMP_SUFIX, ext)

NewName(name, n, len, ext) == Format3(name, Zfill(StrOf(n), len), ext)

----------------------------------------------------------------------------
\* The file system

PathExists(p) == p \in DOMAIN fs \/ p = "f"

PathIsDir(p) == p \in DOMAIN fs

IsFile(d, n) == n \in DOMAIN d /\ d[n].kind = "file"

\* What os.rename(src, dst) of a file does in directory d when the environment
\* lets it: "ok", or the reason it raises.  An existing file at dst is replaced
\* (POSIX; where the platform refuses that, the call raises like any failure
\* of the environment, see Outcomes).
RenameOutcome(d, src, dst) ==
    IF src \notin DOMAIN d THEN "missing"
    ELSE IF dst \notin DOMAIN d \/ dst = src THEN "ok"
    ELSE IF d[dst].kind = "dir" THEN "isdir"
    ELSE "ok"

\* The directory after a successful os.rename(src, dst).
Renamed(d, src, dst) ==
    [n \in (DOMAIN d \ {src}) \cup {dst} |-> IF n = dst THEN d[src] ELSE d[n]]

\* A rename that leaves the file in the current directory "d2" and not in dir,
\* as a target path without the '<path>/' prefix would.
RenameInCwd(f, dir, src, dst) ==
    IF dir = "d2" THEN [f EXCEPT ![dir] = Renamed(@, src, dst)]
    ELSE [f EXCEPT ![dir] = [n \in DOMAIN @ \ {src} |-> @[n]],
                   !["d2"] = [n \in DOMAIN @ \cup {dst} |->
                                 IF n = dst THEN f[dir][src] ELSE @[n]]]

\* The file system after a successful os.rename('<dir>/<src>', '<dir>/<dst>').
RenameIn(f, dir, src, dst) == [f EXCEPT ![dir] = Renamed(@, src, dst)]

----------------------------------------------------------------------------
\* Dictionaries that keep insertion order

HasKey(dict, k) == \E p \in 1..Len(dict) : dict[p][1] = k

KeyPos(dict, k) == CHOOSE p \in 1..Len(dict) : dict[p][1] = k

\* dict[k] = v
DictSet(dict, k, v) ==
    IF HasKey(dict, k)
    THEN [dict EXCEPT ![KeyPos(dict, k)] = <<k, v>>]
    ELSE Append(dict, <<k, v>>)

\* seqs_data_dict[name, ext] gets number appended, or becomes [number]
Grouped(dict, key, number) ==
    IF HasKey(dict, key)
    THEN [dict EXCEPT ![KeyPos(dict, key)] = <<key, Append(@[2], number)>>]
    ELSE Append(dict, <<key, <<number>>>>)

\* One token inserted in a list sorted by int: after the tokens that are not greater.
RECURSIVE InsertByInt(_, _)
InsertByInt(sorted, x) ==
    IF Len(sorted) = 0 THEN <<x>>
    ELSE IF IntOf(sorted[Len(sorted)]) <= IntOf(x) THEN Append(sorted, x)
    ELSE Append(InsertByInt(SubSeq(sorted, 1, Len(sorted) - 1), x), sorted[Len(sorted)])

\* list.sort() without key=int: ascending in the order of strings.
RECURSIVE StrLess(_, _)
StrLess(s, t) ==
    IF Len(t) = 0 THEN FALSE
    ELSE IF Len(s) = 0 THEN TRUE
    ELSE IF s[1] # t[1] THEN DigitValue(s[1]) < DigitValue(t[1])
    ELSE StrLess(Tail(s), Tail(t))

RECURSIVE InsertByStr(_, _)
InsertByStr(sorted, x) ==
    IF Len(sorted) = 0 THEN <<x>>
    ELSE IF ~StrLess(x, sorted[Len(sorted)]) THEN Append(sorted, x)
    ELSE Append(InsertByStr(SubSeq(sorted, 1, Len(sorted) - 1), x), sorted[Len(sorted)])

RECURSIVE SortByStrFrom(_, _)
SortByStrFrom(sorted, rest) ==
    IF Len(rest) = 0 THEN sorted
    ELSE SortByStrFrom(InsertByStr(sorted, rest[1]), Tail(rest))

SortByStr(list) == SortByStrFrom(<<>>, list)

RECURSIVE SortFrom(_, _)
SortFrom(sorted, rest) ==
    IF Len(rest) = 0 THEN sorted
    ELSE SortFrom(InsertByInt(sorted, rest[1]), Tail(rest))

\* A sort by int in descending order.
SortByIntReversed(list) ==
    LET sorted == SortFrom(<<>>, list)
    IN  [k \in 1..Len(sorted) |-> sorted[Len(sorted) + 1 - k]]

\* img_list.sort(key=int): stable, ascending by integer value.
SortByInt(list) == SortFrom(<<>>, list)

----------------------------------------------------------------------------
\* Initial states

NameA(number) == Format3(<<"a">>, number, <<"p">>)

\* Entries a directory may hold when main() is called.  No name carries
\* TEMP_SUFIX: it is made of the time at which this process started.
Pool ==
    { [name |-> NameA(<<"1">>), kind |-> "file"],
      [name |-> NameA(<<"2">>), kind |-> "file"],
      [name |-> NameA(<<"2">>), kind |-> "dir"],
      [name |-> NameA(<<"1", "0">>), kind |-> "file"],
      [name |-> NameA(<<"0", "1">>), kind |-> "file"],
      [name |-> Format3(<<"b">>, <<"1">>, <<"p">>), kind |-> "file"],
      [name |-> NameA(<<"x">>), kind |-> "file"],
      [name |-> NameA(<<"sup2">>), kind |-> "file"],
      [name |-> <<"r", ".", "t">>, kind |-> "file"] }

DirOf(S) ==
    [n \in {e.name : e \in S} |->
        [kind |-> (CHOOSE e \in S : e.name = n).kind, id |-> n]]

Contents ==
    {S \in SUBSET Pool :
        /\ Cardinality(S) <= MaxFiles
        /\ \A e1, e2 \in S : e1.name = e2.name => e1 = e2}

D2Contents == {[name |-> NameA(<<"1">>), kind |-> "file"]}

\* Paths: "d0" (empty), "d1" and "d2" are directories, "f" is a regular file,
\* "nx" does not exist; the current directory is "d2".
ArgLists == { <<>>, <<"nx", "f", "d0">>, <<"d1", "d0">> }

Init ==
    /\ \E S \in Contents :
           fs = [p \in {"d0", "d1", "d2"} |->
                    IF p = "d1" THEN DirOf(S)
                    ELSE IF p = "d2" THEN DirOf(D2Contents) ELSE DirOf({})]
    /\ fs0 = fs
    /\ fsAtCall = fs
    /\ args \in ArgLists
    /\ start \in 0..MaxStart
    /\ length \in 1..MaxLength
    /\ pc = "start"
    /\ argi = 1
    /\ files = {}
    /\ renaming_dict = <<>>
    /\ seqs_data_dict = <<>>
    /\ bi = 1
    /\ j = 0
    /\ frame_number = 0
    /\ r = 1
    /\ log = <<>>
    /\ trace = <<>>
    /\ ended = <<>>

----------------------------------------------------------------------------
\* The program

path == args[argi]

LogRecord(level, msg) == [level |-> level, msg |-> msg, path |-> path]

RenameEvent(phase, src, dst, out) ==
    [path |-> path, phase |-> phase, src |-> src, dst |-> dst, out |-> out,
     clobber |-> (out = "ok" /\ dst \in DOMAIN fs[path] /\ dst # src)]

\* The outcomes one os.rename(src, dst) call can have: what the file system
\* decides, or, where that is "ok", a failure of the environment
\* (permission denied, disk full, an existing target on Windows, ...).
Outcomes(src, dst) ==
    LET out == RenameOutcome(fs[path], src, dst)
    IN  IF out = "ok" THEN {"ok", "env"} ELSE {out}

\* renumber_files returns (or raises) and main() goes on (or not).
Return(result) ==
    /\ ended' = Append(ended, [path |-> path, result |-> result])
    /\ argi' = argi + 1
    /\ pc' = "main"

\* An except clause that logs and restores nothing.
ExceptClauseNoRestore ==
    /\ log' = log \o <<LogRecord("error", "renaming"), LogRecord("error", "exception"),
                       LogRecord("error", "skipping")>>
    /\ pc' = "rollback"
    /\ r' = Len(renaming_dict) + 1

\* The except clause up to the call of restore_original_names.
ExceptClause ==
    /\ log' = log \o <<LogRecord("error", "renaming"), LogRecord("error", "exception"),
                       LogRecord("error", "skipping")>>
    /\ pc' = "rollback"
    /\ r' = 1

\* main(): options and args; without args the current directory is used.
MainStart ==
    /\ pc = "start"
    /\ args' = IF Len(args) = 0 THEN <<"d2">> ELSE args
    /\ pc' = "main"
    /\ UNCHANGED <<fs, fs0, fsAtCall, start, length, argi, files, renaming_dict,
                   seqs_data_dict, bi, j, frame_number, r, log, trace, ended>>

\* main(): the loop over args is over.
MainEnd ==
    /\ pc = "main"
    /\ argi > Len(args)
    /\ pc' = "done"
    /\ UNCHANGED <<fs, fs0, fsAtCall, args, start, length, argi, files, renaming_dict,
                   seqs_data_dict, bi, j, frame_number, r, log, trace, ended>>

\* A skip that logs nothing.
SkipSilently(msg) ==
    /\ Return("skipped")
    /\ UNCHANGED <<fs, fs0, fsAtCall, args, start, length, files, renaming_dict,
                   seqs_data_dict, bi, j, frame_number, r, log, trace>>

\* logger.warning(...); return
Skip(msg) ==
    /\ log' = Append(log, LogRecord("warning", msg))
    /\ Return("skipped")
    /\ UNCHANGED <<fs, fs0, fsAtCall, args, start, length, files, renaming_dict,
                   seqs_data_dict, bi, j, frame_number, r, trace>>

SkipNotExist ==
    /\ pc = "main"
    /\ argi <= Len(args)
    /\ ~PathExists(path)
    /\ Skip("does not exist")

SkipNotDir ==
    /\ pc = "main"
    /\ argi <= Len(args)
    /\ PathExists(path)
    /\ ~PathIsDir(path)
    /\ Skip("is not a directory")

SkipEmpty ==
    /\ pc = "main"
    /\ argi <= Len(args)
    /\ PathIsDir(path)
    /\ DOMAIN fs[path] = {}
    /\ Skip("is empty")

\* files = os.listdir(path); the two dictionaries start empty.  The list is in
\* arbitrary order: the phase 1 loop takes the listed entries in any order.
Scan ==
    /\ pc = "main"
    /\ argi <= Len(args)
    /\ PathIsDir(path)
    /\ DOMAIN fs[path] # {}
    /\ files' = DOMAIN fs[path]
    /\ fsAtCall' = fs
    /\ renaming_dict' = <<>>
    /\ seqs_data_dict' = <<>>
    /\ pc' = "phase1"
    /\ UNCHANGED <<fs, fs0, args, start, length, argi, bi, j, frame_number,
                   r, log, trace, ended>>

\* Matches without the isnumeric() test.
MatchesAnyMiddle(d, file) ==
    /\ IsFile(d, file)
    /\ Len(Split(file)) = 3

\* Matches without the isfile() test.
MatchesAnyKind(d, file) ==
    /\ file \in DOMAIN d
    /\ Len(Split(file)) = 3
    /\ IsNumeric(Split(file)[2])

\* The three tests of the phase 1 loop that skip an entry.
Matches(d, file) ==
    /\ IsFile(d, file)
    /\ Len(Split(file)) = 3
    /\ IsNumeric(Split(file)[2])

Phase1Skip ==
    /\ pc = "phase1"
    /\ \E file \in files :
           /\ ~Matches(fs[path], file)
           /\ files' = files \ {file}
    /\ UNCHANGED <<fs, fs0, fsAtCall, args, start, length, pc, argi, renaming_dict,
                   seqs_data_dict, bi, j, frame_number, r, log, trace, ended>>

\* One iteration of the phase 1 loop on a matching file: group, rename, record.
Phase1Stage ==
    /\ pc = "phase1"
    /\ \E file \in files :
           /\ Matches(fs[path], file)
           /\ LET data == Split(file)
                  tmp == TmpName(data[1], data[2], data[3])
              IN  /\ "ok" \in Outcomes(file, tmp)
                  /\ seqs_data_dict' = Grouped(seqs_data_dict, <<data[1], data[3]>>, data[2])
                  /\ fs' = RenameIn(fs, path, file, tmp)
                  /\ trace' = Append(trace, RenameEvent("stage", file, tmp, "ok"))
                  /\ renaming_dict' = DictSet(renaming_dict, file, tmp)
           /\ files' = files \ {file}
    /\ UNCHANGED <<fs0, fsAtCall, args, start, length, pc, argi, bi, j,
                   frame_number, r, log, ended>>

\* The same iteration when os.rename raises.
Phase1Raise ==
    /\ pc = "phase1"
    /\ \E file \in files :
           /\ Matches(fs[path], file)
           /\ LET data == Split(file)
                  tmp == TmpName(data[1], data[2], data[3])
              IN  /\ seqs_data_dict' = Grouped(seqs_data_dict, <<data[1], data[3]>>, data[2])
                  /\ \E out \in Outcomes(file, tmp) \ {"ok"} :
                         trace' = Append(trace, RenameEvent("stage", file, tmp, out))
    /\ ExceptClause
    /\ UNCHANGED <<fs, fs0, fsAtCall, args, start, length, argi, files, renaming_dict,
                   bi, j, frame_number, ended>>

\* A phase 1 loop that is left before every listed entry has been visited.
Phase1EndEarly ==
    /\ pc = "phase1"
    /\ pc' = "phase2"
    /\ bi' = 1
    /\ j' = 0
    /\ UNCHANGED <<fs, fs0, fsAtCall, args, start, length, argi, files, renaming_dict,
                   seqs_data_dict, frame_number, r, log, trace, ended>>

\* The phase 1 loop has visited every listed entry.
Phase1End ==
    /\ pc = "phase1"
    /\ files = {}
    /\ pc' = "phase2"
    /\ bi' = 1
    /\ j' = 0
    /\ UNCHANGED <<fs, fs0, fsAtCall, args, start, length, argi, files, renaming_dict,
                   seqs_data_dict, frame_number, r, log, trace, ended>>

img_list == seqs_data_dict[bi][2]

\* A frame number that is not reset for the second and later buckets.
InitialFrameCarried == IF bi = 1 THEN start ELSE frame_number

\* frame_number = start, for every bucket
InitialFrame == start

\* img_list.sort(key=int); frame_number = start
BucketSort ==
    /\ pc = "phase2"
    /\ bi <= Len(seqs_data_dict)
    /\ j = 0
    /\ \A k \in 1..Len(img_list) : IntDefined(img_list[k])
    /\ seqs_data_dict' = [seqs_data_dict EXCEPT ![bi] = <<@[1], SortByInt(@[2])>>]
    /\ frame_number' = InitialFrame
    /\ j' = 1
    /\ UNCHANGED <<fs, fs0, fsAtCall, args, start, length, pc, argi, files,
                   renaming_dict, bi, r, log, trace, ended>>

\* int() raises ValueError on a token of the bucket.
BucketSortRaise ==
    /\ pc = "phase2"
    /\ bi <= Len(seqs_data_dict)
    /\ j = 0
    /\ \E k \in 1..Len(img_list) : ~IntDefined(img_list[k])
    /\ ExceptClause
    /\ UNCHANGED <<fs, fs0, fsAtCall, args, start, length, argi, files, renaming_dict,
                   seqs_data_dict, bi, j, frame_number, trace, ended>>

StagedName == TmpName(seqs_data_dict[bi][1][1], img_list[j], seqs_data_dict[bi][1][2])

FinalName == NewName(seqs_data_dict[bi][1][1], frame_number, length, seqs_data_dict[bi][1][2])

\* One iteration of the inner phase 2 loop.
FinalRename ==
    /\ pc = "phase2"
    /\ bi <= Len(seqs_data_dict)
    /\ j >= 1
    /\ j <= Len(img_list)
    /\ "ok" \in Outcomes(StagedName, FinalName)
    /\ fs' = RenameIn(fs, path, StagedName, FinalName)
    /\ trace' = Append(trace, RenameEvent("final", StagedName, FinalName, "ok"))
    /\ renaming_dict' = DictSet(renaming_dict, StagedName, FinalName)
    /\ frame_number' = frame_number + 1
    /\ j' = j + 1
    /\ UNCHANGED <<fs0, fsAtCall, args, start, length, pc, argi, files,
                   seqs_data_dict, bi, r, log, ended>>

FinalRaise ==
    /\ pc = "phase2"
    /\ bi <= Len(seqs_data_dict)
    /\ j >= 1
    /\ j <= Len(img_list)
    /\ \E out \in Outcomes(StagedName, FinalName) \ {"ok"} :
           trace' = Append(trace, RenameEvent("final", StagedName, FinalName, out))
    /\ ExceptClause
    /\ UNCHANGED <<fs, fs0, fsAtCall, args, start, length, argi, files, renaming_dict,
                   seqs_data_dict, bi, j, frame_number, ended>>

\* An inner loop of phase 2 that stops one token short of the end of img_list.
BucketEndEarly ==
    /\ pc = "phase2"
    /\ bi <= Len(seqs_data_dict)
    /\ j >= Len(img_list)
    /\ bi' = bi + 1
    /\ j' = 0
    /\ UNCHANGED <<fs, fs0, fsAtCall, args, start, length, pc, argi, files,
                   renaming_dict, seqs_data_dict, frame_number, r, log, trace, ended>>

\* The inner loop of phase 2 has visited every token of img_list.
BucketEnd ==
    /\ pc = "phase2"
    /\ bi <= Len(seqs_data_dict)
    /\ j > Len(img_list)
    /\ bi' = bi + 1
    /\ j' = 0
    /\ UNCHANGED <<fs, fs0, fsAtCall, args, start, length, pc, argi, files,
                   renaming_dict, seqs_data_dict, frame_number, r, log, trace, ended>>

\* The try block ends without exception and renumber_files returns.
Phase2End ==
    /\ pc = "phase2"
    /\ bi > Len(seqs_data_dict)
    /\ Return("done")
    /\ UNCHANGED <<fs, fs0, fsAtCall, args, start, length, files, renaming_dict,
                   seqs_data_dict, bi, j, frame_number, r, log, trace>>

\* restore_original_names: one iteration, os.rename(curr_name, org_name).
RollbackRename ==
    /\ pc = "rollback"
    /\ r <= Len(renaming_dict)
    /\ "ok" \in Outcomes(renaming_dict[r][2], renaming_dict[r][1])
    /\ fs' = RenameIn(fs, path, renaming_dict[r][2], renaming_dict[r][1])
    /\ trace' = Append(trace, RenameEvent("restore", renaming_dict[r][2], renaming_dict[r][1], "ok"))
    /\ r' = r + 1
    /\ UNCHANGED <<fs0, fsAtCall, args, start, length, pc, argi, files, renaming_dict,
                   seqs_data_dict, bi, j, frame_number, log, ended>>

\* os.rename raises inside restore_original_names: nothing catches the
\* exception, it leaves renumber_files and main().
RollbackRaise ==
    /\ pc = "rollback"
    /\ r <= Len(renaming_dict)
    /\ \E out \in Outcomes(renaming_dict[r][2], renaming_dict[r][1]) \ {"ok"} :
           trace' = Append(trace, RenameEvent("restore", renaming_dict[r][2], renaming_dict[r][1], out))
    /\ ended' = Append(ended, [path |-> path, result |-> "raised"])
    /\ pc' = "crashed"
    /\ UNCHANGED <<fs, fs0, fsAtCall, args, start, length, argi, files, renaming_dict,
                   seqs_data_dict, bi, j, frame_number, r, log>>

\* restore_original_names returns, then renumber_files.
RollbackEnd ==
    /\ pc = "rollback"
    /\ r > Len(renaming_dict)
    /\ Return("failed")
    /\ UNCHANGED <<fs, fs0, fsAtCall, args, start, length, files, renaming_dict,
                   seqs_data_dict, bi, j, frame_number, r, log, trace>>

Next ==
    \/ MainStart
    \/ MainEnd
    \/ SkipNotExist
    \/ SkipNotDir
    \/ SkipEmpty
    \/ Scan
    \/ Phase1Skip
    \/ Phase1Stage
    \/ Phase1Raise
    \/ Phase1End
    \/ BucketSort
    \/ BucketSortRaise
    \/ FinalRename
    \/ FinalRaise
    \/ BucketEnd
    \/ Phase2End
    \/ RollbackRename
    \/ RollbackRaise
    \/ RollbackEnd

Spec == Init /\ [][Next]_vars

----------------------------------------------------------------------------
\* The runs of the program in which no os.rename raises: the except clause is
\* entered through int() only.

NextOk ==
    \/ MainStart
    \/ MainEnd
    \/ SkipNotExist
    \/ SkipNotDir
    \/ SkipEmpty
    \/ Scan
    \/ Phase1Skip
    \/ Phase1Stage
    \/ Phase1End
    \/ BucketSort
    \/ BucketSortRaise
    \/ FinalRename
    \/ BucketEnd
    \/ Phase2End
    \/ RollbackRename
    \/ RollbackEnd

SpecOk == Init /\ [][NextOk]_vars

----------------------------------------------------------------------------
\* Runs without failure over the current directory, which holds the one file
\* a.1.p: the frame number written is options.start, for starts of one to
\* four digits and every length up to MaxPad.

InitPad ==
    /\ fs = [p \in {"d0", "d1", "d2"} |-> IF p = "d2" THEN DirOf(D2Contents) ELSE DirOf({})]
    /\ fs0 = fs
    /\ fsAtCall = fs
    /\ args = <<>>
    /\ start \in 0..MaxFrame
    /\ length \in 1..MaxPad
    /\ pc = "start"
    /\ argi = 1
    /\ files = {}
    /\ renaming_dict = <<>>
    /\ seqs_data_dict = <<>>
    /\ bi = 1
    /\ j = 0
    /\ frame_number = 0
    /\ r = 1
    /\ log = <<>>
    /\ trace = <<>>
    /\ ended = <<>>

NextPad ==
    \/ MainStart
    \/ Scan
    \/ Phase1Stage
    \/ Phase1End
    \/ BucketSort
    \/ FinalRename
    \/ BucketEnd
    \/ Phase2End
    \/ MainEnd

SpecPad == InitPad /\ [][NextPad]_vars

----------------------------------------------------------------------------
\* Vocabulary of the properties

Dirs == DOMAIN fs

Processing == pc \in {"phase1", "phase2", "rollback"}

\* The call of renumber_files on p is over.
Ended(p) == \E k \in 1..Len(ended) : ended[k].path = p

EndedAs(p, result) ==
    \E k \in 1..Len(ended) : ended[k].path = p /\ ended[k].result = result

\* The os.rename calls made for p, as indices of trace.
Events(p) == {k \in 1..Len(trace) : trace[k].path = p}

Raised(p, phase) == {k \in Events(p) : trace[k].phase = phase /\ trace[k].out # "ok"}

\* Renames that failed although their source existed.
Refused(p) == {k \in Events(p) : trace[k].out \notin {"ok", "missing"}}

\* The filter as the specification states it: a regular file whose name has
\* exactly three parts separated by ".", the middle one numeric.
PassesFilter(d, n) ==
    /\ n \in DOMAIN d
    /\ d[n].kind = "file"
    /\ Cardinality({k \in 1..Len(n) : n[k] = "."}) = 2
    /\ LET dots == {k \in 1..Len(n) : n[k] = "."}
           lo == CHOOSE k \in dots : \A m \in dots : k <= m
           hi == CHOOSE k \in dots : \A m \in dots : m <= k
       IN  /\ hi > lo + 1
           /\ \A k \in (lo + 1)..(hi - 1) : n[k] \in NumericChars

\* The entries of p that pass the filter when main() is called, by name.
OrigMatching(p) == {n \in DOMAIN fs0[p] : PassesFilter(fs0[p], n)}

KeyOf(n) == <<Split(n)[1], Split(n)[3]>>

Token(n) == Split(n)[2]

BucketOf(p, key) == {n \in OrigMatching(p) : KeyOf(n) = key}

Present(p, id) == \E n \in DOMAIN fs[p] : fs[p][n].id = id

\* The name under which the entry originally called id is found now.
NameNow(p, id) == CHOOSE n \in DOMAIN fs[p] : fs[p][n].id = id

DistinctValues(B) ==
    \A x, y \in B : x # y => IntOf(Token(x)) # IntOf(Token(y))

ErrorsLogged(p) == {k \in 1..Len(log) : log[k].path = p /\ log[k].level = "error"}

WarningsLogged(p) == {k \in 1..Len(log) : log[k].path = p /\ log[k].level = "warning"}

----------------------------------------------------------------------------
\* C1: rollback completeness.  If exactly one rename of a directory is refused,
\* and it is a final (phase 2) rename, then once the processing of the
\* directory is over every entry has its original name again.
C1_RollbackCompleteness ==
    \A p \in Dirs :
        (/\ Ended(p)
         /\ Cardinality(Refused(p)) = 1
         /\ \A k \in Refused(p) : trace[k].phase = "final")
        => fs[p] = fs0[p]

\* C2: order preservation.  After a run without exception, in a bucket whose
\* tokens have pairwise distinct integer values, the file with the smaller
\* original value carries the smaller new frame number.
C2_OrderPreservation ==
    \A p \in Dirs :
        EndedAs(p, "done") =>
            \A x \in OrigMatching(p) :
                LET B == BucketOf(p, KeyOf(x))
                IN  DistinctValues(B) =>
                        \A y \in B :
                            IntOf(Token(x)) < IntOf(Token(y)) =>
                                /\ Present(p, x) /\ Present(p, y)
                                /\ IntDefined(Token(NameNow(p, x)))
                                /\ IntDefined(Token(NameNow(p, y)))
                                /\ IntOf(Token(NameNow(p, x))) < IntOf(Token(NameNow(p, y)))

\* A finished run on a bucket holding the tokens 2 and 10, whose numeric and
\* string orders differ.
C2_Witness ==
    /\ EndedAs("d1", "done")
    /\ {NameA(<<"2">>), NameA(<<"1", "0">>)} \subseteq OrigMatching("d1")
    /\ Cardinality(Events("d1")) >= 4

\* The files of p that now carry a numeric token under the key.
NumberedNow(p, key) ==
    {n \in DOMAIN fs[p] : PassesFilter(fs[p], n) /\ KeyOf(n) = key}

\* C3: contiguous numbering per bucket.  After a run without exception every
\* bucket of n files holds exactly the frame numbers start .. start+n-1,
\* whatever the other buckets of the directory are.
C3_ContiguousPerBucket ==
    \A p \in Dirs :
        EndedAs(p, "done") =>
            \A x \in OrigMatching(p) :
                LET B == BucketOf(p, KeyOf(x))
                    now == NumberedNow(p, KeyOf(x))
                IN  /\ {fs[p][n].id : n \in now} = B
                    /\ Cardinality(now) = Cardinality(B)
                    /\ \A n \in now : IntDefined(Token(n))
                    /\ {IntOf(Token(n)) : n \in now} = start..(start + Cardinality(B) - 1)

\* A finished run on two buckets, one of them with two files.
C3_Witness ==
    /\ EndedAs("d1", "done")
    /\ \E x, y, z \in OrigMatching("d1") :
           x # y /\ KeyOf(x) = KeyOf(y) /\ KeyOf(z) # KeyOf(x)

\* C4: no file is lost or overwritten.  No successful rename has an existing
\* target, and the number of entries of a directory never changes.
C4_NoFileLost ==
    /\ \A k \in 1..Len(trace) : ~trace[k].clobber
    /\ \A p \in Dirs : Cardinality(DOMAIN fs[p]) = Cardinality(DOMAIN fs0[p])

\* C5: failure isolation.  No exception leaves renumber_files, and when the
\* program stops every path of args has been processed.
C5_FailureIsolation ==
    /\ \A k \in 1..Len(ended) : ended[k].result # "raised"
    /\ pc \in {"done", "crashed"} => Len(ended) = Len(args)

C7_SkipOnMismatch ==
    \A p \in Dirs :
        \A n \in {m \in DOMAIN fs0[p] : ~PassesFilter(fs0[p], m)} :
            /\ n \in DOMAIN fs[p] /\ fs[p][n] = fs0[p][n]
            /\ \A k \in Events(p) : trace[k].src # n /\ (trace[k].out = "ok" => trace[k].dst # n)
            /\ (Processing /\ path = p) =>
                   \A b \in 1..Len(seqs_data_dict) :
                       \A t \in 1..Len(seqs_data_dict[b][2]) :
                           Format3(seqs_data_dict[b][1][1], seqs_data_dict[b][2][t],
                                   seqs_data_dict[b][1][2]) # n

\* Runs over a directory that holds a file with a non-numeric middle part next
\* to matching files: one that finished, one that was rolled back.
C7_Witness ==
    /\ NameA(<<"x">>) \in DOMAIN fs0["d1"]
    /\ OrigMatching("d1") # {}
    /\ Ended("d1")
    /\ \E k \in Events("d1") : trace[k].phase = "restore" /\ trace[k].out = "ok"

\* C8, as stated: a directory without any matching entry gets a warning and no
\* rename.
C8_NoMatchWarns ==
    \A p \in Dirs :
        (Ended(p) /\ OrigMatching(p) = {}) =>
            /\ Events(p) = {}
            /\ WarningsLogged(p) # {}

\* C8, amended: a directory without any matching entry gets no rename; it gets
\* a warning exactly when its listing is empty.
C8_NoMatchNoRename ==
    \A p \in Dirs :
        (Ended(p) /\ OrigMatching(p) = {}) =>
            /\ Events(p) = {}
            /\ WarningsLogged(p) # {} <=> DOMAIN fs0[p] = {}

\* The call is over on a directory that holds entries, none of them matching.
C8_Witness ==
    /\ Ended("d1")
    /\ DOMAIN fs0["d1"] # {}
    /\ OrigMatching("d1") = {}

\* C9: path errors are a no-op.  A call on a path that does not exist, is not a
\* directory or is an empty directory renames nothing, logs one warning and
\* nothing else, and returns.
C9_PathErrorNoOp ==
    \A k \in 1..Len(ended) :
        LET p == ended[k].path
        IN  (~PathExists(p) \/ ~PathIsDir(p) \/ DOMAIN fs0[p] = {}) =>
                /\ ended[k].result = "skipped"
                /\ Events(p) = {}
                /\ Cardinality({m \in 1..Len(log) : log[m].path = p}) = 1
                /\ Cardinality(WarningsLogged(p)) = 1

\* The three path errors have happened in one run: a missing path, a file and
\* an empty directory.
C9_Witness ==
    /\ pc = "done"
    /\ Ended("nx") /\ Ended("f") /\ Ended("d0")

\* C10: a failing reverse rename is surfaced.  When a rename of the rollback
\* has failed, an error was logged for it, besides the three records of the
\* except clause.
C10_RollbackFailureLogged ==
    \A p \in Dirs :
        Raised(p, "restore") # {} => Cardinality(ErrorsLogged(p)) > 3


----------------------------------------------------------------------------
\* The same directory given twice in args: renumber_files runs on d1, then on
\* what the first call has left in d1.  These are the runs in which no
\* os.rename raises; the except clause is entered through int() only.

PoolTwice ==
    {e \in Pool : e.kind = "file" /\ e.name \notin {NameA(<<"1", "0">>), <<"r", ".", "t">>}}

InitTwice ==
    /\ \E S \in {T \in Contents : T \subseteq PoolTwice} :
           fs = [p \in {"d0", "d1", "d2"} |->
                    IF p = "d1" THEN DirOf(S)
                    ELSE IF p = "d2" THEN DirOf(D2Contents) ELSE DirOf({})]
    /\ fs0 = fs
    /\ fsAtCall = fs
    /\ args = <<"d1", "d1">>
    /\ start \in 0..MaxStart
    /\ length \in 1..MaxLength
    /\ pc = "start"
    /\ argi = 1
    /\ files = {}
    /\ renaming_dict = <<>>
    /\ seqs_data_dict = <<>>
    /\ bi = 1
    /\ j = 0
    /\ frame_number = 0
    /\ r = 1
    /\ log = <<>>
    /\ trace = <<>>
    /\ ended = <<>>

NextTwice ==
    \/ MainStart
    \/ MainEnd
    \/ SkipEmpty
    \/ Scan
    \/ Phase1Skip
    \/ Phase1Stage
    \/ Phase1End
    \/ BucketSort
    \/ BucketSortRaise
    \/ FinalRename
    \/ BucketEnd
    \/ Phase2End
    \/ RollbackRename
    \/ RollbackEnd

SpecTwice == InitTwice /\ [][NextTwice]_vars

----------------------------------------------------------------------------
\* The number of decimal digits of k >= 0.
NumDigits(k) == CHOOSE d \in 1..10 : k < 10 ^ d /\ (d = 1 \/ k >= 10 ^ (d - 1))

Max(a, b) == IF a >= b THEN a ELSE b

\* The directories in which os.rename has been called so far.
Touched == {trace[k].path : k \in 1..Len(trace)}

\* The final renames made for p so far.
Finals(p) == {k \in Events(p) : trace[k].phase = "final"}

\* C11: padding is a minimum width.  The frame string of the m-th final name
\* of a bucket is the decimal form of k = start + m - 1, with zeros on the left
\* up to max(length, number of digits of k) characters: never truncated.
\* (Stated for directories of one bucket, as SpecPad has them.)
C11_PaddingIsMinimumWidth ==
    \A p \in Dirs :
        \A e \in Finals(p) :
            LET k == start + Cardinality({m \in Finals(p) : m < e})
                t == Token(trace[e].dst)
            IN  /\ Len(t) = Max(length, NumDigits(k))
                /\ IntDefined(t)
                /\ IntOf(t) = k

\* The frame 1000 has been written with length 2, as 1000.
C11_Witness ==
    /\ start = 1000
    /\ length = 2
    /\ \E e \in Finals("d2") :
           trace[e].out = "ok" /\ Token(trace[e].dst) = <<"1", "0", "0", "0">>

\* C12: the rename map while a directory is processed.  After each rename and
\* its map update, every key of renaming_dict is a path that does not exist
\* and its value is a path that exists.
C12_RenameMapInvariant ==
    pc \in {"phase1", "phase2"} =>
        \A k \in 1..Len(renaming_dict) :
            /\ renaming_dict[k][2] \in DOMAIN fs[path]
            /\ renaming_dict[k][1] \notin DOMAIN fs[path]

\* C13: two full passes.  Within one directory every os.rename of phase 1
\* comes before every os.rename of phase 2, whatever the buckets are, and when
\* a phase 2 rename has been made every matching file of the directory has
\* been staged before it.
C13_TwoFullPasses ==
    \A p \in Touched :
        LET fin == Finals(p)
            stg == {k \in Events(p) : trace[k].phase = "stage"}
        IN  fin # {} =>
                /\ \A k \in stg : \A e \in fin : k < e
                /\ \A n \in OrigMatching(p) :
                       \E k \in stg : trace[k].src = n /\ trace[k].out = "ok"

\* Files of two buckets have been staged and given their final names.
C13_Witness ==
    \E e1, e2 \in Finals("d1") :
        /\ trace[e1].out = "ok"
        /\ trace[e2].out = "ok"
        /\ KeyOf(trace[e1].dst) # KeyOf(trace[e2].dst)

\* C14: the state machine of one directory.  Every call of renumber_files on
\* an existing directory that is not empty ends in DONE, every matching file
\* carrying a final name, or in FAILED, reached through the rollback that a
\* failed rename of phase 1 or phase 2 started; it ends in no other way.
C14_PerDirectoryStateMachine ==
    \A k \in 1..Len(ended) :
        LET p == ended[k].path
        IN  ended[k].result # "skipped" =>
                \/ /\ ended[k].result = "done"
                   /\ Cardinality({e \in Finals(p) : trace[e].out = "ok"})
                          = Cardinality(OrigMatching(p))
                \/ /\ ended[k].result = "failed"
                   /\ Raised(p, "stage") \cup Raised(p, "final") # {}

\* C15: the frame of one directory.  Every step that changes the filesystem is
\* made while a path D of args is processed, rollback included, and changes
\* the entries of D only: every other directory keeps its contents.
C15_DirectoryFrame ==
    [][fs' # fs =>
          /\ Processing
          /\ \A p \in Dirs \ {path} : fs'[p] = fs[p]]_vars

\* d1 has been renamed and rolled back while the current directory, which is
\* not in args, holds a file and has kept it.
C15_Witness ==
    /\ EndedAs("d1", "failed")
    /\ \E k \in Events("d1") : trace[k].phase = "restore" /\ trace[k].out = "ok"
    /\ "d2" \notin {args[k] : k \in 1..Len(args)}
    /\ DOMAIN fs["d2"] # {}
    /\ fs["d2"] = fs0["d2"]

\* The name n carries the temporary suffix.
HasTempSufix(n) ==
    \E k \in 1..(Len(n) - Len(TEMP_SUFIX) + 1) :
        SubSeq(n, k, k + Len(TEMP_SUFIX) - 1) = TEMP_SUFIX

\* C16: no staging leftovers on success.  When the call on a directory ends
\* without a rename error, no entry of the directory carries the temporary
\* suffix, and every file staged in phase 1 has been renamed from its
\* temporary name to a final name in phase 2.
C16_NoStagingLeftovers ==
    \A p \in Touched :
        EndedAs(p, "done") =>
            /\ \A n \in DOMAIN fs[p] : ~HasTempSufix(n)
            /\ \A k \in Events(p) :
                   trace[k].phase = "stage" =>
                       \E e \in Finals(p) :
                           /\ trace[e].src = trace[k].dst
                           /\ trace[e].out = "ok"
                           /\ ~HasTempSufix(trace[e].dst)

\* A directory of two matching files or more has been renumbered.
C16_Witness ==
    /\ EndedAs("d1", "done")
    /\ Cardinality({k \in Events("d1") : trace[k].phase = "stage"}) >= 2
    /\ \A k \in Events("d1") : trace[k].phase = "stage" => HasTempSufix(trace[k].dst)

\* C17: idempotence.  When renumber_files has run twice on the same directory
\* with the same start and length and no os.rename has failed, the second run
\* has left the directory as the first one left it: the same names, and the
\* same file under each name.
C17_Idempotence ==
    (Len(ended) = 2 /\ \A k \in 1..Len(trace) : trace[k].out = "ok")
        => fs = fsAtCall

\* Two runs have renumbered d1: the first has changed names of two files or
\* more, the second has renamed them again (to temporary names and back).
C17_Witness ==
    /\ Len(ended) = 2
    /\ \A k \in 1..Len(ended) : ended[k].result = "done"
    /\ \A k \in 1..Len(trace) : trace[k].out = "ok"
    /\ Cardinality({n \in DOMAIN fs0["d1"] : n \notin DOMAIN fs["d1"]}) >= 2
    /\ Len(trace) >= 8

\* The files of p whose token has the integer value of the token of x, in the
\* bucket of x.
SameValue(p, x) ==
    {y \in BucketOf(p, KeyOf(x)) :
        IntDefined(Token(y)) /\ IntOf(Token(y)) = IntOf(Token(x))}

\* C18: equal-valued tokens are kept apart.  No two files are staged under
\* the same temporary name and no staging rename replaces an entry; after a
\* run without failure, files of one bucket whose tokens are different
\* strings with the same integer value (1 and 01) are all present, under
\* distinct final numbers that follow one another.
C18_EqualValuedTokensKeptApart ==
    \A p \in Touched :
        LET stg == {k \in Events(p) : trace[k].phase = "stage" /\ trace[k].out = "ok"}
        IN  /\ \A k1, k2 \in stg : trace[k1].dst = trace[k2].dst => k1 = k2
            /\ \A k \in stg : ~trace[k].clobber
            /\ EndedAs(p, "done") =>
                   \A x \in OrigMatching(p) : \A y \in SameValue(p, x) \ {x} :
                       /\ Present(p, x)
                       /\ Present(p, y)
                       /\ PassesFilter(fs[p], NameNow(p, x))
                       /\ PassesFilter(fs[p], NameNow(p, y))
                       /\ LET nx == IntOf(Token(NameNow(p, x)))
                              ny == IntOf(Token(NameNow(p, y)))
                          IN  /\ nx # ny
                              /\ nx - ny < Cardinality(SameValue(p, x))
                              /\ ny - nx < Cardinality(SameValue(p, x))

\* a.1.p and a.01.p were in d1 and the run on d1 has ended without failure.
C18_Witness ==
    /\ EndedAs("d1", "done")
    /\ {NameA(<<"1">>), NameA(<<"0", "1">>)} \subseteq OrigMatching("d1")
    /\ Present("d1", NameA(<<"1">>))
    /\ Present("d1", NameA(<<"0", "1">>))

====
